---- MODULE Spec2Model ----
(***************************************************************************)
(* Model of rhasspywake_snowboy_hermes: the WakeHermesMqtt object          *)
(* (src/rhasspywake_snowboy_hermes/__init__.py) as it is built and driven  *)
(* by main (src/rhasspywake_snowboy_hermes/__main__.py).                   *)
(*                                                                         *)
(* Conventions.  A Python str that the code indexes is a sequence of       *)
(* one-character strings (<<"h","e","y">> is "hey"); list indices are      *)
(* 0-based in the code and shifted by one where a sequence is indexed.     *)
(* A byte of audio is the tuple <<pos, origin, site, open>>: pos is the    *)
(* place the byte takes in the stream of appended bytes if its frame is    *)
(* appended, origin says whether it comes from the WAV's own frames        *)
(* ("raw") or from the converter's output ("sox"), site is the site of     *)
(* the message that carried it and open is the value of self.enabled       *)
(* when that message was delivered.                                        *)
(* The snowboy detector, the sox converter, the wave parser and the MQTT   *)
(* client are external: each call's outcome (return value or exception)    *)
(* is chosen nondeterministically.                                         *)
(***************************************************************************)
EXTENDS Integers, Sequences, FiniteSets, TLC

(* -------- bounds ------------------------------------------------------- *)

\* Number of bytes a behaviour may append to audio_buffer in total.
MaxBytes == 5

\* Largest number of sample bytes one audio-frame message carries.
MaxPayload == 4

(* -------- configuration space ------------------------------------------ *)

Sites == {"default", "kitchen", "office"}

Path(stem) == [stem |-> stem, suffix |-> ".umdl"]

\* The command lines the service is started with: model is the list of
\* --model options (each the nargs="+" list of one option), wakewordId the
\* list of --wakewordId options, siteId the list of --siteId options (an
\* option never given is None, here <<>>), and chunk_size the chunk size
\* the object is built with (960 by default, scaled down).
Args ==
    { [model |-> << <<Path(<<"h", "e", "y">>)>> >>,
       wakewordId |-> <<>>, siteId |-> <<>>, chunk_size |-> 2],
      [model |-> << <<Path(<<"o", "k">>), "0.8">>, <<Path(<<"j", "o", "e">>)>> >>,
       wakewordId |-> <<"hey">>, siteId |-> <<"kitchen", "office">>, chunk_size |-> 3],
      [model |-> << <<Path(<<"a">>)>>, <<Path(<<"b">>), "0.4">>, <<Path(<<"c">>), "0.6">> >>,
       wakewordId |-> <<"x", "y">>, siteId |-> <<"default">>, chunk_size |-> 2] }

(* -------- main: building the configuration ----------------------------- *)

\* SnowboyModel(model_path=...), sensitivity overwritten when supplied.
\* audio_gain and apply_frontend only parameterise the external detector.
SnowboyModel(model_settings) ==
    [model_path |-> model_settings[1],
     sensitivity |-> IF Len(model_settings) > 1 THEN model_settings[2] ELSE "0.5"]

ParseModels(model_args) ==
    [i \in 1..Len(model_args) |-> SnowboyModel(model_args[i])]

Max(a, b) == IF a >= b THEN a ELSE b
Min(a, b) == IF a <= b THEN a ELSE b

\* Mutant: zip_longest is called without fillvalue and pads with None.
ZipWakewordIdsNoFill(model_args, wakeword_args) ==
    [i \in 1..Max(Len(model_args), Len(wakeword_args)) |->
        IF i <= Len(wakeword_args) THEN wakeword_args[i] ELSE "None"]

\* [kn[1] for kn in zip_longest(args.model, args.wakewordId or [], fillvalue="default")]
ZipWakewordIds(model_args, wakeword_args) ==
    [i \in 1..Max(Len(model_args), Len(wakeword_args)) |->
        IF i <= Len(wakeword_args) THEN wakeword_args[i] ELSE "default"]

(* -------- topics (rhasspyhermes) --------------------------------------- *)

ToggleOnTopic == <<"hermes", "hotword", "toggleOn">>
ToggleOffTopic == <<"hermes", "hotword", "toggleOff">>
OtherTopic == <<"hermes", "asr", "startListening">>

\* AudioFrame.topic(siteId=...)
AudioFrameTopic(siteId) == <<"hermes", "audioServer", siteId, "audioFrame">>

\* AudioFrame.is_topic(topic)
IsAudioFrameTopic(topic) ==
    /\ Len(topic) = 4
    /\ topic[1] = "hermes" /\ topic[2] = "audioServer" /\ topic[4] = "audioFrame"

\* Mutant: the site is not read from the topic and stays at the default.
GetSiteIdDefault(topic) == "default"

\* AudioFrame.get_siteId(topic)
GetSiteId(topic) == topic[3]

\* HotwordDetected.topic(wakewordId=...) and HotwordError.topic()
DetectedTopic(wakewordId) == <<"hermes", "hotword", wakewordId, "detected">>
ErrorTopic == <<"hermes", "error", "hotword">>

(* -------- state --------------------------------------------------------- *)

VARIABLES
    models,            \* self.models
    wakeword_ids,      \* self.wakeword_ids
    siteIds,           \* self.siteIds
    chunk_size,        \* self.chunk_size
    audioframe_topics, \* self.audioframe_topics
    enabled,           \* self.enabled
    first_audio,       \* self.first_audio
    audio_buffer,      \* self.audio_buffer
    detectors,         \* self.detectors
    model_ids,         \* self.model_ids
    dispatcher,        \* where main is: client.loop_forever() "waiting" for
                       \* a message or "returned" from on_message; with
                       \* --stdin-audio at "stdin" before the blob is read
                       \* and "exited" after main's return; "crashed" once
                       \* an exception has left main
    stdout,            \* what main has written to sys.stdout
    threads,           \* the handlers a threaded host runs (see Threads)
    presented,         \* history: the chunks the threads handed to detectors
    interleaved,       \* history: a handler started while another was running
    total_len,         \* history: number of bytes appended to audio_buffer
    chunks_presented,  \* history: number of chunks taken from audio_buffer
    detector_raised,   \* history: some RunDetection call has raised
    window,            \* history: the last disabled window (see Window)
    last               \* history: what the last operation did

vars == <<models, wakeword_ids, siteIds, chunk_size, audioframe_topics, enabled,
          first_audio, audio_buffer, detectors, model_ids, dispatcher,
          total_len, chunks_presented, detector_raised, window, last,
          stdout, threads, presented, interleaved>>

\* What only main's batch mode and the threaded host change.
aux == <<stdout, threads, presented, interleaved>>

config == <<models, wakeword_ids, siteIds, chunk_size, audioframe_topics>>

EmptyDict == [k \in {} |-> "default"]
NoToggle == [json |-> "empty", obj |-> EmptyDict]
NoWav == [parsable |-> FALSE, format_ok |-> FALSE, frames |-> <<>>,
          sox_ok |-> FALSE, sox_stdout |-> <<>>]

\* The disabled window the history keeps: phase is "none" before the first
\* toggle-off takes effect and again once a chunk has been taken after the
\* window, "off" while self.enabled is False and "on_again" from the
\* toggle-on that ends the window until the next chunk is taken; remainder
\* is audio_buffer as the toggle-off found it, sites the siteIds named by
\* the toggle-offs that took effect while it is "off" and dropped whether an
\* audio frame of a subscribed site was delivered inside the window.
NoWindow == [phase |-> "none", remainder |-> <<>>, sites |-> {}, dropped |-> FALSE]

\* The record kept of an operation that handled no message.
NoMessage(op) ==
    [op |-> op, topic |-> <<>>, toggle |-> NoToggle, wav |-> NoWav,
     enabled_before |-> TRUE, first_audio_before |-> TRUE, buffer_before |-> <<>>,
     window_before |-> NoWindow, reached |-> FALSE,
     failure |-> "none", pcm |-> <<>>, chunks |-> <<>>,
     calls |-> <<>>, events |-> <<>>, published |-> <<>>,
     publish_errors |-> 0]

\* The handlers of a threaded host and what each holds: pc is the statement
\* of handle_audio_frame it is to run next, audio_data and chunk its locals.
ThreadIds == {1, 2}
Idle == [pc |-> "idle", audio_data |-> <<>>, chunk |-> <<>>]

\* WakeHermesMqtt(client, models, wakeword_ids, siteIds=args.siteId)
Init ==
    /\ \E args \in Args :
          /\ models = ParseModels(args.model)
          /\ wakeword_ids = ZipWakewordIds(args.model, args.wakewordId)
          /\ siteIds = args.siteId
          /\ chunk_size = args.chunk_size
    /\ audioframe_topics = [i \in 1..Len(siteIds) |-> AudioFrameTopic(siteIds[i])]
    /\ enabled = TRUE
    /\ first_audio = TRUE
    /\ audio_buffer = <<>>
    /\ detectors = <<>>
    /\ model_ids = <<>>
    /\ dispatcher = "waiting"
    /\ total_len = 0
    /\ chunks_presented = 0
    /\ detector_raised = FALSE
    /\ window = NoWindow
    /\ last = NoMessage("init")
    /\ stdout = <<>>
    /\ threads = [t \in ThreadIds |-> Idle]
    /\ presented = <<>>
    /\ interleaved = FALSE

(* -------- load_detectors ------------------------------------------------ *)

\* snowboydetect.SnowboyDetect(resource, model_path) with its settings applied.
NewDetector(model) ==
    [model_path |-> model.model_path, sensitivity |-> model.sensitivity]

\* self.detectors after the loop: one detector per model, in model order.
LoadedDetectors(ms) == [i \in 1..Len(ms) |-> NewDetector(ms[i])]

\* self.model_ids after the loop.  Every iteration ASSIGNS model_path.stem
\* (a str) to self.model_ids, so what is left is the last model's stem.
LoadedModelIds(ms) == IF Len(ms) = 0 THEN <<>> ELSE ms[Len(ms)].model_path.stem

\* hermes.load_detectors() called by main before the client loop starts.
load_detectors ==
    /\ dispatcher = "waiting"
    /\ detectors = <<>>
    /\ detectors' = LoadedDetectors(models)
    /\ model_ids' = LoadedModelIds(models)
    /\ last' = NoMessage("load_detectors")
    /\ UNCHANGED <<config, enabled, first_audio, audio_buffer, dispatcher,
                   total_len, chunks_presented, detector_raised, window, aux>>

(* -------- _check_siteId and the toggle payloads ------------------------- *)

\* A payload of a toggle message: the bytes received, classified by what
\* json.loads makes of them.  "empty" is b"" (replaced by "{}"), "object" a
\* JSON object (obj holds its siteId field, if any), "array" valid JSON that
\* is not an object, "malformed" not JSON at all.
TogglePayloads ==
    {[json |-> "empty", obj |-> EmptyDict],
     [json |-> "object", obj |-> EmptyDict],
     [json |-> "array", obj |-> EmptyDict],
     [json |-> "malformed", obj |-> EmptyDict]}
    \cup {[json |-> "object", obj |-> [k \in {"siteId"} |-> s]] : s \in Sites}

\* json.loads(msg.payload or "{}"): the parsed value, or a raised exception.
JsonLoads(payload) ==
    CASE payload.json = "empty" -> [raised |-> FALSE, isDict |-> TRUE, dict |-> EmptyDict]
      [] payload.json = "object" -> [raised |-> FALSE, isDict |-> TRUE, dict |-> payload.obj]
      [] payload.json = "array" -> [raised |-> FALSE, isDict |-> FALSE, dict |-> EmptyDict]
      [] OTHER -> [raised |-> TRUE, isDict |-> FALSE, dict |-> EmptyDict]

\* dict.get(key, default)
DictGet(dict, key, default) == IF key \in DOMAIN dict THEN dict[key] ELSE default

InSeq(x, s) == \E i \in 1..Len(s) : s[i] = x

\* Mutant: every toggle is accepted, whatever site it names.
CheckSiteIdAlways(scope, parsed) == [raised |-> FALSE, value |-> TRUE]

\* _check_siteId(json_payload): [raised, value].  A parsed value that is not
\* a dict has no .get, which raises when self.siteIds is non-empty.
CheckSiteId(scope, parsed) ==
    IF Len(scope) > 0
    THEN IF parsed.isDict
         THEN [raised |-> FALSE, value |-> InSeq(DictGet(parsed.dict, "siteId", "default"), scope)]
         ELSE [raised |-> TRUE, value |-> FALSE]
    ELSE [raised |-> FALSE, value |-> TRUE]

(* -------- maybe_convert_wav --------------------------------------------- *)

\* len bytes from the given origin, of a message of the given site delivered
\* while self.enabled was open, placed after the first bytes already appended.
Bytes(first, origin, site, open, len) ==
    [k \in 1..len |-> <<first + k, origin, site, open>>]

\* The WAV blobs an audio-frame message may carry: parsable says whether
\* wave.open accepts it, format_ok whether rate, width and channels all
\* equal the required ones, frames is what readframes returns, sox_ok
\* whether sox exits with 0 and sox_stdout what it then writes (a blob of
\* another format is resampled to twice its length).
Wavs(first, site, open) ==
    {[parsable |-> FALSE, format_ok |-> FALSE, frames |-> <<>>,
      sox_ok |-> FALSE, sox_stdout |-> <<>>],
     [parsable |-> TRUE, format_ok |-> FALSE, frames |-> Bytes(first, "raw", site, open, 1),
      sox_ok |-> FALSE, sox_stdout |-> <<>>]}
    \cup {[parsable |-> TRUE, format_ok |-> TRUE,
           frames |-> Bytes(first, "raw", site, open, len),
           sox_ok |-> FALSE, sox_stdout |-> <<>>] : len \in 0..MaxPayload}
    \cup {[parsable |-> TRUE, format_ok |-> FALSE,
           frames |-> Bytes(first, "raw", site, open, len),
           sox_ok |-> TRUE, sox_stdout |-> Bytes(first, "sox", site, open, 2 * len)]
          : len \in 1..(MaxPayload \div 2)}

\* _convert_wav(wav_data): subprocess.run(..., check=True).stdout
ConvertWav(wav) ==
    IF wav.sox_ok THEN [raised |-> FALSE, data |-> wav.sox_stdout]
    ELSE [raised |-> TRUE, data |-> <<>>]

\* Mutant: a failing conversion falls back to the frames as they are.
MaybeConvertWavLenient(wav) ==
    IF ~wav.parsable THEN [raised |-> TRUE, data |-> <<>>]
    ELSE IF ~wav.format_ok /\ wav.sox_ok THEN ConvertWav(wav)
    ELSE [raised |-> FALSE, data |-> wav.frames]

\* maybe_convert_wav(wav_bytes): [raised, data]
MaybeConvertWav(wav) ==
    IF ~wav.parsable THEN [raised |-> TRUE, data |-> <<>>]
    ELSE IF ~wav.format_ok THEN ConvertWav(wav)
    ELSE [raised |-> FALSE, data |-> wav.frames]

(* -------- handle_detection ---------------------------------------------- *)

HotwordDetected(siteId, modelId, currentSensitivity, modelVersion, modelType) ==
    [type |-> "HotwordDetected", siteId |-> siteId, modelId |-> modelId,
     currentSensitivity |-> currentSensitivity, modelVersion |-> modelVersion,
     modelType |-> modelType]

HotwordError(error, context, siteId) ==
    [type |-> "HotwordError", error |-> error, context |-> context, siteId |-> siteId]

\* self.model_ids[model_index]: model_ids is a str, so the result is the
\* one-character str at that position.
ModelIdAt(ids, model_index) == <<ids[model_index + 1]>>

\* Mutant: the context of the error is the one-based position.
HandleDetectionOneBased(ids, ms, model_index, siteId) ==
    IF Len(ids) > model_index
    THEN HotwordDetected(siteId, ModelIdAt(ids, model_index),
                         ms[model_index + 1].sensitivity, "", "personal")
    ELSE HotwordError(<<"Missing", model_index, "in models">>,
                      ToString(model_index + 1), siteId)

\* handle_detection(model_index, siteId): the assert guards the lookup and
\* its AssertionError is turned into a HotwordError.
HandleDetection(ids, ms, model_index, siteId) ==
    IF Len(ids) > model_index
    THEN HotwordDetected(siteId, ModelIdAt(ids, model_index),
                         ms[model_index + 1].sensitivity, "", "personal")
    ELSE HotwordError(<<"Missing", model_index, "in models">>,
                      ToString(model_index), siteId)

(* -------- handle_audio_frame -------------------------------------------- *)

\* Values RunDetection returns: -2 silence, -1 error, 0 voice, n > 0 a hit.
DetectorReturns == {-2, -1, 0, 1}

\* Mutant: voice (0) is taken for a detection (>= for >).
IsDetectionOrVoice(result_index) == result_index >= 0

\* Mutant: the test is on truth (if result_index:), so -1 and -2 pass it.
IsNonZero(result_index) == result_index # 0

\* if result_index > 0: ... break
IsDetection(result_index) == result_index > 0

\* Mutant: every detection is labelled with the first id.
WakewordIdFirst(ids, detector_index) ==
    IF 0 < Len(ids) THEN ids[1] ELSE "default"

\* wakewordId of a detection by the detector at detector_index
WakewordIdFor(ids, detector_index) ==
    IF detector_index < Len(ids) THEN ids[detector_index + 1] ELSE "default"

\* Mutant: the loop stops one byte early (> for >=).
HasChunkStrict(buf, size) == Len(buf) > size

\* while len(self.audio_buffer) >= self.chunk_size
HasChunk(buf, size) == Len(buf) >= size

\* Mutant: the slice ends one byte early.
TakeChunkOneLess(buf, size) == SubSeq(buf, 1, Min(size, Len(buf)) - 1)

\* chunk = self.audio_buffer[: self.chunk_size] (a slice of a shorter
\* buffer is the whole buffer)
TakeChunk(buf, size) == SubSeq(buf, 1, Min(size, Len(buf)))

\* Mutant: the slice starts one byte late and loses a byte per chunk.
DropChunkOneMore(buf, size) == SubSeq(buf, size + 2, Len(buf))

\* self.audio_buffer = self.audio_buffer[self.chunk_size :]
DropChunk(buf, size) == SubSeq(buf, size + 1, Len(buf))

\* Mutant: the isinstance test is missing and every result is published
\* with the wakewordId.
PublishTopicAlwaysDetected(message, wakewordId) == DetectedTopic(wakewordId)

\* message.topic(**topic_args) as on_message calls publish
PublishTopic(message, wakewordId) ==
    IF message.type = "HotwordDetected" THEN DetectedTopic(wakewordId) ELSE ErrorTopic

\* One entry of the log of detector calls: the pass's chunk number, the
\* detector's index, whether the call returned (or raised) and what.
Call(chunk_no, detector_index, returned, result_index) ==
    [chunk |-> chunk_no, detector_index |-> detector_index,
     returned |-> returned, result_index |-> result_index]

\* What the detectors and the MQTT client answer while one chunk is
\* evaluated: returns[k] is what the k-th RunDetection call on the chunk
\* returns, raises says that the call after those raises instead of
\* returning, publish_ok that client.publish accepts the chunk's event.
\* A call the answers do not cover returns silence.
ChunkAnswers(n) ==
    LET Quiet == {r \in DetectorReturns : r <= 0}
        Hits == DetectorReturns \ Quiet
        QuietRuns(m) == [1..m -> Quiet]
    IN  {[returns |-> q, raises |-> FALSE, publish_ok |-> TRUE] : q \in QuietRuns(n)}
        \cup UNION {{[returns |-> Append(q, h), raises |-> FALSE, publish_ok |-> ok] :
                        q \in QuietRuns(m), h \in Hits, ok \in BOOLEAN} : m \in 0..(n - 1)}
        \cup UNION {{[returns |-> q, raises |-> TRUE, publish_ok |-> TRUE] :
                        q \in QuietRuns(m)} : m \in 0..(n - 1)}

RECURSIVE PassAnswers(_, _)
\* The answers given during a pass that finds k chunks to take, chunk by
\* chunk; a chunk on which a call raises is the pass's last.
PassAnswers(k, n) ==
    IF k = 0 THEN {<<>>}
    ELSE {<<a>> : a \in {x \in ChunkAnswers(n) : x.raises}}
         \cup {<<a>> \o rest : a \in {x \in ChunkAnswers(n) : ~x.raises},
                                rest \in PassAnswers(k - 1, n)}

Silence == [returns |-> <<>>, raises |-> FALSE, publish_ok |-> TRUE]
AnswersFor(answers, chunk_no) ==
    IF chunk_no <= Len(answers) THEN answers[chunk_no] ELSE Silence
Raises(a, detector_index) == a.raises /\ detector_index = Len(a.returns)
Returned(a, detector_index) ==
    IF detector_index < Len(a.returns) THEN a.returns[detector_index + 1] ELSE -2

\* The yield of a detection and on_message's publish of it: publish catches
\* whatever client.publish raises, and the generator is resumed either way.
Yield(ctx, chunk_no, detector_index, st, a) ==
    LET wakewordId == WakewordIdFor(ctx.wakeword_ids, detector_index)
        result == HandleDetection(ctx.model_ids, ctx.models, detector_index, ctx.siteId)
        ev == [chunk |-> chunk_no, detector_index |-> detector_index,
               wakewordId |-> wakewordId, message |-> result]
        sent == [topic |-> PublishTopic(result, wakewordId), payload |-> result]
    IN  IF a.publish_ok
        THEN [st EXCEPT !.events = Append(@, ev), !.published = Append(@, sent)]
        ELSE [st EXCEPT !.events = Append(@, ev), !.publish_errors = @ + 1]

RECURSIVE ForLoopNoBreak(_, _, _, _, _)
\* Mutant: the break after the yield is missing.
ForLoopNoBreak(ctx, chunk_no, detector_index, st, a) ==
    IF detector_index >= Len(ctx.detectors) THEN st
    ELSE IF Raises(a, detector_index)
    THEN [st EXCEPT !.calls = Append(@, Call(chunk_no, detector_index, FALSE, 0)),
                    !.failure = "detector"]
    ELSE LET result_index == Returned(a, detector_index)
             st1 == [st EXCEPT !.calls =
                        Append(@, Call(chunk_no, detector_index, TRUE, result_index))]
         IN  ForLoopNoBreak(ctx, chunk_no, detector_index + 1,
                            IF IsDetection(result_index)
                            THEN Yield(ctx, chunk_no, detector_index, st1, a) ELSE st1,
                            a)

RECURSIVE ForLoopSkipsRaising(_, _, _, _, _)
\* Mutant: a raising call is caught inside the loop, which goes on with
\* the next detector.
ForLoopSkipsRaising(ctx, chunk_no, detector_index, st, a) ==
    IF detector_index >= Len(ctx.detectors) THEN st
    ELSE IF Raises(a, detector_index)
    THEN ForLoopSkipsRaising(ctx, chunk_no, detector_index + 1,
            [st EXCEPT !.calls = Append(@, Call(chunk_no, detector_index, FALSE, 0))], a)
    ELSE LET result_index == Returned(a, detector_index)
             st1 == [st EXCEPT !.calls =
                        Append(@, Call(chunk_no, detector_index, TRUE, result_index))]
         IN  IF IsDetection(result_index)
             THEN Yield(ctx, chunk_no, detector_index, st1, a)
             ELSE ForLoopSkipsRaising(ctx, chunk_no, detector_index + 1, st1, a)

RECURSIVE ForLoop(_, _, _, _, _)
\* for detector_index, detector in enumerate(self.detectors), from
\* detector_index on, on the chunk numbered chunk_no.
ForLoop(ctx, chunk_no, detector_index, st, a) ==
    IF detector_index >= Len(ctx.detectors) THEN st
    ELSE IF Raises(a, detector_index)
    THEN [st EXCEPT !.calls = Append(@, Call(chunk_no, detector_index, FALSE, 0)),
                    !.failure = "detector"]
    ELSE LET result_index == Returned(a, detector_index)
             st1 == [st EXCEPT !.calls =
                        Append(@, Call(chunk_no, detector_index, TRUE, result_index))]
         IN  IF IsDetection(result_index)
             THEN Yield(ctx, chunk_no, detector_index, st1, a)
             ELSE ForLoop(ctx, chunk_no, detector_index + 1, st1, a)

RECURSIVE WhileLoop(_, _, _)
\* while len(self.audio_buffer) >= self.chunk_size, left when a call raises.
WhileLoop(ctx, st, answers) ==
    IF st.failure = "none" /\ HasChunk(st.buf, ctx.chunk_size)
    THEN LET st1 == [st EXCEPT !.chunks = Append(@, TakeChunk(st.buf, ctx.chunk_size)),
                               !.buf = DropChunk(st.buf, ctx.chunk_size)]
             chunk_no == Len(st1.chunks)
         IN  WhileLoop(ctx, ForLoop(ctx, chunk_no, 0, st1, AnswersFor(answers, chunk_no)),
                       answers)
    ELSE st

\* What running a handler has done so far.
Start(buf) ==
    [buf |-> buf, failure |-> "none", pcm |-> <<>>, chunks |-> <<>>, calls |-> <<>>,
     events |-> <<>>, published |-> <<>>, publish_errors |-> 0]

\* handle_audio_frame(wav_bytes, siteId), consumed by on_message's for loop,
\* with the detectors and the client answering as answers says.
HandleAudioFrame(ctx, buf, wav, answers) ==
    LET audio_data == MaybeConvertWav(wav)
    IN  IF audio_data.raised
        THEN [Start(buf) EXCEPT !.failure = "wav"]
        ELSE WhileLoop(ctx, [Start(buf \o audio_data.data) EXCEPT !.pcm = audio_data.data],
                       answers)

\* The number of chunks the frame's pass finds to take.
ChunksAhead(buf, wav, size) ==
    LET audio_data == MaybeConvertWav(wav)
    IN  IF audio_data.raised THEN 0 ELSE (Len(buf) + Len(audio_data.data)) \div size

(* -------- on_message ----------------------------------------------------- *)


\* The messages the broker may deliver next: toggles with every payload, an
\* audio frame of every site, and a message of another topic.  first and
\* open label the bytes of the audio frames.
Messages(first, open) ==
    {[topic |-> t, toggle |-> p, wav |-> NoWav] :
        t \in {ToggleOnTopic, ToggleOffTopic}, p \in TogglePayloads}
    \cup UNION {{[topic |-> AudioFrameTopic(s), toggle |-> NoToggle, wav |-> w] :
                    w \in Wavs(first, s, open)} : s \in Sites}
    \cup {[topic |-> OtherTopic, toggle |-> NoToggle, wav |-> NoWav]}

\* The toggle part of on_message: self.enabled and self.first_audio after
\* it, the failure it ended with, and whether a toggle took effect.
HandleToggle(topic, payload, scope, en, first) ==
    LET same == [failure |-> "none", applied |-> FALSE, enabled |-> en, first_audio |-> first]
    IN  IF topic \notin {ToggleOnTopic, ToggleOffTopic} THEN same
        ELSE LET json_payload == JsonLoads(payload)
             IN  IF json_payload.raised THEN [same EXCEPT !.failure = "json"]
                 ELSE LET check == CheckSiteId(scope, json_payload)
                      IN  IF check.raised THEN [same EXCEPT !.failure = "check_siteId"]
                          ELSE IF ~check.value THEN same
                          ELSE IF topic = ToggleOnTopic
                          THEN [failure |-> "none", applied |-> TRUE,
                                enabled |-> TRUE, first_audio |-> TRUE]
                          ELSE [failure |-> "none", applied |-> TRUE,
                                enabled |-> FALSE, first_audio |-> first]

\* Mutant: the early return of the disabled service is missing.
NeverDisabled(en, siteId) == FALSE

\* Mutant: only the frames of one site are dropped while disabled.
DisabledForKitchen(en, siteId) == ~en /\ siteId = "kitchen"

\* if not self.enabled: return
Disabled(en, siteId) == ~en

\* Mutant: the membership test on self.audioframe_topics is missing.
IsAnyAudioFrame(topic, topics) == IsAudioFrameTopic(topic)

\* AudioFrame.is_topic(msg.topic) and
\* (not self.audioframe_topics) or (msg.topic in self.audioframe_topics)
IsScopedAudioFrame(topic, topics) ==
    IsAudioFrameTopic(topic) /\ (Len(topics) = 0 \/ InSeq(topic, topics))

\* Mutant: the detector loop runs outside the try block.
PropagatesFromDetector(failure) == failure = "detector"

\* except Exception: _LOGGER.exception("on_message") -- the handler's
\* try block spans its whole body and the except clause re-raises nothing.
Propagates(failure) == FALSE

\* The siteId a toggle payload names, "default" when it names none.
PayloadSiteId(payload) == DictGet(JsonLoads(payload).dict, "siteId", "default")

\* The history of the disabled window after a message: en is self.enabled
\* before it, tg what its toggle part did, scoped whether it is an audio
\* frame of a subscribed site, drained whether a chunk was taken.
Window(w, msg, buf, en, tg, scoped, drained) ==
    IF tg.applied /\ ~tg.enabled
    THEN IF en
         THEN [phase |-> "off", remainder |-> buf,
               sites |-> {PayloadSiteId(msg.toggle)}, dropped |-> FALSE]
         ELSE [w EXCEPT !.sites = @ \cup {PayloadSiteId(msg.toggle)}]
    ELSE IF ~en /\ tg.enabled THEN [w EXCEPT !.phase = "on_again", !.sites = {}]
    ELSE IF ~en /\ scoped THEN [w EXCEPT !.dropped = TRUE]
    ELSE IF w.phase = "on_again" /\ drained THEN NoWindow
    ELSE w

\* The record kept of one operation.
Done(op, msg, en, first, buf, w, reached, out) ==
    [op |-> op, topic |-> msg.topic, toggle |-> msg.toggle, wav |-> msg.wav,
     enabled_before |-> en, first_audio_before |-> first, buffer_before |-> buf,
     window_before |-> w, reached |-> reached,
     failure |-> out.failure, pcm |-> out.pcm, chunks |-> out.chunks,
     calls |-> out.calls, events |-> out.events, published |-> out.published,
     publish_errors |-> out.publish_errors]

\* on_message(client, userdata, msg), called by the client loop for one
\* delivered message and run to its return.
on_message(msg) ==
    /\ dispatcher = "waiting"
    /\ total_len + Len(msg.wav.frames) <= MaxBytes
    /\ total_len + Len(msg.wav.sox_stdout) <= MaxBytes
    /\ LET tg == HandleToggle(msg.topic, msg.toggle, siteIds, enabled, first_audio)
           scoped == IsScopedAudioFrame(msg.topic, audioframe_topics)
       IN  IF tg.failure # "none" \/ ~IsAudioFrameTopic(msg.topic)
                \/ Disabled(tg.enabled, GetSiteId(msg.topic)) \/ ~scoped
           THEN /\ enabled' = tg.enabled
                /\ first_audio' = tg.first_audio
                /\ dispatcher' = IF Propagates(tg.failure) THEN "crashed" ELSE "returned"
                /\ window' = Window(window, msg, audio_buffer, enabled, tg, scoped, FALSE)
                /\ last' = Done("on_message", msg, enabled, first_audio, audio_buffer,
                                window, FALSE,
                                [Start(audio_buffer) EXCEPT !.failure = tg.failure])
                /\ UNCHANGED <<audio_buffer, detectors, model_ids, total_len,
                               chunks_presented, detector_raised>>
           ELSE LET dets == IF Len(detectors) = 0 THEN LoadedDetectors(models)
                            ELSE detectors
                    ids == IF Len(detectors) = 0 THEN LoadedModelIds(models)
                           ELSE model_ids
                    ctx == [models |-> models, wakeword_ids |-> wakeword_ids,
                            chunk_size |-> chunk_size, detectors |-> dets,
                            model_ids |-> ids, siteId |-> GetSiteId(msg.topic)]
                    ahead == ChunksAhead(audio_buffer, msg.wav, chunk_size)
                IN  \E answers \in PassAnswers(ahead, Len(dets)) :
                    LET out == HandleAudioFrame(ctx, audio_buffer, msg.wav, answers) IN
                       /\ enabled' = tg.enabled
                       /\ first_audio' = FALSE
                       /\ detectors' = dets
                       /\ model_ids' = ids
                       /\ audio_buffer' = out.buf
                       /\ total_len' = total_len + Len(out.pcm)
                       /\ chunks_presented' = chunks_presented + Len(out.chunks)
                       /\ detector_raised' = (detector_raised \/ out.failure = "detector")
                       /\ dispatcher' = IF Propagates(out.failure) THEN "crashed"
                                        ELSE "returned"
                       /\ window' = Window(window, msg, audio_buffer, enabled, tg, scoped,
                                            out.chunks # <<>>)
                       /\ last' = Done("on_message", msg, enabled, first_audio,
                                       audio_buffer, window, TRUE, out)
    /\ UNCHANGED <<config, aux>>

\* client.loop_forever(): on_message has returned and the loop goes back to
\* waiting for the next message; the record of the handler's run is dropped.
loop_forever ==
    /\ dispatcher = "returned"
    /\ dispatcher' = "waiting"
    /\ last' = NoMessage("loop_forever")
    /\ UNCHANGED <<config, enabled, first_audio, audio_buffer, detectors, model_ids,
                   total_len, chunks_presented, detector_raised, window, aux>>

Next ==
    \/ load_detectors
    \/ loop_forever
    \/ \E msg \in Messages(total_len, enabled) : on_message(msg)

Spec == Init /\ [][Next]_vars

(* -------- main with --stdin-audio ---------------------------------------- *)

\* hermes = WakeHermesMqtt(client, models, wakeword_ids): no siteIds, and
\* main has not yet read the blob.
BatchInit ==
    /\ \E args \in Args :
          /\ models = ParseModels(args.model)
          /\ wakeword_ids = ZipWakewordIds(args.model, args.wakewordId)
          /\ chunk_size = args.chunk_size
    /\ siteIds = <<>>
    /\ audioframe_topics = <<>>
    /\ enabled = TRUE
    /\ first_audio = TRUE
    /\ audio_buffer = <<>>
    /\ detectors = <<>>
    /\ model_ids = <<>>
    /\ dispatcher = "stdin"
    /\ total_len = 0
    /\ chunks_presented = 0
    /\ detector_raised = FALSE
    /\ window = NoWindow
    /\ last = NoMessage("init")
    /\ stdout = <<>>
    /\ threads = [t \in ThreadIds |-> Idle]
    /\ presented = <<>>
    /\ interleaved = FALSE

\* attr.asdict(inst): the fields of an instance of an attrs class; any
\* other value raises NotAnAttrsClassError.
AsDict(inst) ==
    IF inst.class \in {"HotwordDetected", "HotwordError"}
    THEN [raised |-> FALSE, dict |-> inst.fields]
    ELSE [raised |-> TRUE, dict |-> inst.class]

\* The body of main's for loop for one value the generator yields; the
\* loop variable result is bound to the yielded tuple.
MainForBody(st, wakewordId, message) ==
    LET result == [class |-> "tuple", fields |-> <<wakewordId, message>>]
        result_dict == AsDict(result)
    IN  IF result_dict.raised THEN [st EXCEPT !.failure = "asdict"]
        ELSE [st EXCEPT !.stdout = Append(@, result_dict.dict)]

\* What running main's loop over the generator has done so far.
StdinStart(buf) ==
    [buf |-> buf, failure |-> "none", pcm |-> <<>>, chunks |-> <<>>, calls |-> <<>>,
     events |-> <<>>, published |-> <<>>, publish_errors |-> 0, stdout |-> <<>>]

RECURSIVE StdinForLoop(_, _, _, _, _)
\* The generator's for loop over the detectors when main consumes it: the
\* yielded value goes to the body of main's loop.
StdinForLoop(ctx, chunk_no, detector_index, st, a) ==
    IF detector_index >= Len(ctx.detectors) THEN st
    ELSE IF Raises(a, detector_index)
    THEN [st EXCEPT !.calls = Append(@, Call(chunk_no, detector_index, FALSE, 0)),
                    !.failure = "detector"]
    ELSE LET result_index == Returned(a, detector_index)
             st1 == [st EXCEPT !.calls =
                        Append(@, Call(chunk_no, detector_index, TRUE, result_index))]
             wakewordId == WakewordIdFor(ctx.wakeword_ids, detector_index)
             message == HandleDetection(ctx.model_ids, ctx.models, detector_index,
                                        ctx.siteId)
             ev == [chunk |-> chunk_no, detector_index |-> detector_index,
                    wakewordId |-> wakewordId, message |-> message]
         IN  IF IsDetection(result_index)
             THEN MainForBody([st1 EXCEPT !.events = Append(@, ev)], wakewordId, message)
             ELSE StdinForLoop(ctx, chunk_no, detector_index + 1, st1, a)

RECURSIVE StdinWhileLoop(_, _, _)
\* The generator's while loop when main consumes it: an exception in the
\* generator or in the body of main's loop ends it.
StdinWhileLoop(ctx, st, answers) ==
    IF st.failure = "none" /\ HasChunk(st.buf, ctx.chunk_size)
    THEN LET st1 == [st EXCEPT !.chunks = Append(@, TakeChunk(st.buf, ctx.chunk_size)),
                               !.buf = DropChunk(st.buf, ctx.chunk_size)]
             chunk_no == Len(st1.chunks)
         IN  StdinWhileLoop(ctx,
                StdinForLoop(ctx, chunk_no, 0, st1, AnswersFor(answers, chunk_no)),
                answers)
    ELSE st

\* for result in hermes.handle_audio_frame(wav_bytes): ...
StdinAudioFrame(ctx, buf, wav, answers) ==
    LET audio_data == MaybeConvertWav(wav)
    IN  IF audio_data.raised
        THEN [StdinStart(buf) EXCEPT !.failure = "wav"]
        ELSE StdinWhileLoop(ctx,
                [StdinStart(buf \o audio_data.data) EXCEPT !.pcm = audio_data.data],
                answers)

\* main's --stdin-audio branch from hermes.load_detectors() to its return:
\* the blob read from stdin is handled as one frame of site "default";
\* nothing in main catches an exception other than KeyboardInterrupt.
stdin_audio ==
    /\ dispatcher = "stdin"
    /\ \E wav_bytes \in Wavs(0, "default", TRUE) :
       LET dets == LoadedDetectors(models)
           ids == LoadedModelIds(models)
           ctx == [models |-> models, wakeword_ids |-> wakeword_ids,
                   chunk_size |-> chunk_size, detectors |-> dets,
                   model_ids |-> ids, siteId |-> "default"]
           ahead == ChunksAhead(audio_buffer, wav_bytes, chunk_size)
           msg == [topic |-> <<>>, toggle |-> NoToggle, wav |-> wav_bytes]
       IN  \E answers \in PassAnswers(ahead, Len(dets)) :
           LET out == StdinAudioFrame(ctx, audio_buffer, wav_bytes, answers) IN
              /\ detectors' = dets
              /\ model_ids' = ids
              /\ audio_buffer' = out.buf
              /\ total_len' = total_len + Len(out.pcm)
              /\ chunks_presented' = chunks_presented + Len(out.chunks)
              /\ detector_raised' = (detector_raised \/ out.failure = "detector")
              /\ stdout' = out.stdout
              /\ dispatcher' = IF out.failure = "none" THEN "exited" ELSE "crashed"
              /\ last' = Done("stdin_audio", msg, enabled, first_audio, audio_buffer,
                              window, TRUE, out)
    /\ UNCHANGED <<config, enabled, first_audio, window, threads, presented, interleaved>>

BatchNext == stdin_audio

BatchSpec == BatchInit /\ [][BatchNext]_vars

(* -------- handle_audio_frame under a threaded host ---------------------- *)

\* A host that calls on_message for audio frames from several threads
\* without a lock.  Each handler runs the statements of handle_audio_frame
\* that read or write self.audio_buffer one at a time (lines 118, 122, 123,
\* 124); another handler may run between any two of them.  The service is
\* enabled and every frame is well-formed; the detector calls do not touch
\* the buffer, and the chunk they are given is recorded in presented.

Running(t) == threads[t].pc # "idle"

\* on_message is called for an audio frame: audio_data =
\* self.maybe_convert_wav(wav_bytes).  Bytes are numbered in the order the
\* frames arrive.
t_convert(t) ==
    /\ ~Running(t)
    /\ \E len \in 1..MaxPayload :
          /\ total_len + len <= MaxBytes
          /\ threads' = [threads EXCEPT ![t] =
                [pc |-> "append", chunk |-> <<>>,
                 audio_data |-> Bytes(total_len, "raw", "default", TRUE, len)]]
          /\ total_len' = total_len + len
    /\ interleaved' = (interleaved \/ \E u \in ThreadIds \ {t} : Running(u))
    /\ UNCHANGED <<config, enabled, first_audio, audio_buffer, detectors, model_ids,
                   dispatcher, chunks_presented, detector_raised, window, last,
                   stdout, presented>>

\* self.audio_buffer += audio_data
t_append(t) ==
    /\ threads[t].pc = "append"
    /\ audio_buffer' = audio_buffer \o threads[t].audio_data
    /\ threads' = [threads EXCEPT ![t].pc = "while"]
    /\ UNCHANGED <<config, enabled, first_audio, detectors, model_ids, dispatcher,
                   total_len, chunks_presented, detector_raised, window, last,
                   stdout, presented, interleaved>>

\* while len(self.audio_buffer) >= self.chunk_size
t_while(t) ==
    /\ threads[t].pc = "while"
    /\ threads' = [threads EXCEPT ![t] =
          IF HasChunk(audio_buffer, chunk_size) THEN [@ EXCEPT !.pc = "chunk"] ELSE Idle]
    /\ UNCHANGED <<config, enabled, first_audio, audio_buffer, detectors, model_ids,
                   dispatcher, total_len, chunks_presented, detector_raised, window,
                   last, stdout, presented, interleaved>>

\* chunk = self.audio_buffer[: self.chunk_size]
t_chunk(t) ==
    /\ threads[t].pc = "chunk"
    /\ threads' = [threads EXCEPT ![t].pc = "suffix",
                                  ![t].chunk = TakeChunk(audio_buffer, chunk_size)]
    /\ UNCHANGED <<config, enabled, first_audio, audio_buffer, detectors, model_ids,
                   dispatcher, total_len, chunks_presented, detector_raised, window,
                   last, stdout, presented, interleaved>>

\* self.audio_buffer = self.audio_buffer[self.chunk_size :]
t_suffix(t) ==
    /\ threads[t].pc = "suffix"
    /\ audio_buffer' = DropChunk(audio_buffer, chunk_size)
    /\ threads' = [threads EXCEPT ![t].pc = "for"]
    /\ UNCHANGED <<config, enabled, first_audio, detectors, model_ids, dispatcher,
                   total_len, chunks_presented, detector_raised, window, last,
                   stdout, presented, interleaved>>

\* for detector_index, detector in enumerate(self.detectors):
\*     result_index = detector.RunDetection(chunk) ...
t_for(t) ==
    /\ threads[t].pc = "for"
    /\ presented' = Append(presented, threads[t].chunk)
    /\ chunks_presented' = chunks_presented + 1
    /\ threads' = [threads EXCEPT ![t].pc = "while", ![t].chunk = <<>>]
    /\ UNCHANGED <<config, enabled, first_audio, audio_buffer, detectors, model_ids,
                   dispatcher, total_len, detector_raised, window, last,
                   stdout, interleaved>>

ThreadsNext ==
    \E t \in ThreadIds :
       \/ t_convert(t)
       \/ t_append(t)
       \/ t_while(t)
       \/ t_chunk(t)
       \/ t_suffix(t)
       \/ t_for(t)

ThreadsSpec == Init /\ [][ThreadsNext]_vars

(* ======================================================================== *)
(* Properties                                                               *)
(* ======================================================================== *)

\* on_message has returned and its record is at hand.
Handled == dispatcher = "returned" /\ last.op = "on_message"

\* The handled message was an audio frame that reached handle_audio_frame
\* and whose payload was normalised and appended.
Appended == Handled /\ last.reached /\ last.failure # "wav"

RECURSIVE Flatten(_)
Flatten(ss) == IF ss = <<>> THEN <<>> ELSE Head(ss) \o Flatten(Tail(ss))

IsPrefix(p, q) == Len(p) <= Len(q) /\ SubSeq(q, 1, Len(p)) = p

\* The calls made on, and the events produced for, chunk j of the last pass.
CallsOn(j) == SelectSeq(last.calls, LAMBDA x : x.chunk = j)
EventsOn(j) == SelectSeq(last.events, LAMBDA x : x.chunk = j)

IsHit(call) == call.returned /\ call.result_index > 0

\* C1: from an empty buffer and as long as no detector call has raised,
\* after frames whose normalised payloads have total length L the detectors
\* have been presented exactly L div c chunks of c bytes each, the chunks
\* followed by the buffer are the payloads' bytes in arrival order (byte
\* positions run on without gap or repeat), the buffer holds L mod c bytes,
\* and a frame that leaves fewer than c bytes takes no chunk and removes
\* nothing.
C1_Chunking ==
    ~detector_raised =>
       /\ chunks_presented = total_len \div chunk_size
       /\ Len(audio_buffer) = total_len % chunk_size
       /\ \A k \in 1..Len(audio_buffer) :
             audio_buffer[k][1] = chunks_presented * chunk_size + k
       /\ Appended =>
             /\ \A j \in 1..Len(last.chunks) :
                   /\ Len(last.chunks[j]) = chunk_size
                   /\ \A k \in 1..chunk_size :
                         last.chunks[j][k][1] =
                            (chunks_presented - Len(last.chunks) + j - 1) * chunk_size + k
                   /\ CallsOn(j) # <<>>
             /\ Flatten(last.chunks) \o audio_buffer = last.buffer_before \o last.pcm
             /\ Len(last.buffer_before) + Len(last.pcm) < chunk_size =>
                   /\ last.chunks = <<>>
                   /\ audio_buffer = last.buffer_before \o last.pcm

\* C1 witness: chunk size 3, two payloads of 2 bytes: the second frame's
\* pass takes one chunk of 3 and keeps 1 byte (960, 500 + 500 scaled down).
C1_Witness ==
    /\ Appended /\ ~detector_raised
    /\ chunk_size = 3 /\ total_len = 4
    /\ Len(last.buffer_before) = 2 /\ Len(last.pcm) = 2
    /\ Len(last.chunks) = 1 /\ Len(last.chunks[1]) = 3
    /\ Len(audio_buffer) = 1

\* C2 as stated: whenever on_message has returned from an audio frame,
\* audio_buffer is shorter than chunk_size.
C2_Original ==
    (Handled /\ IsAudioFrameTopic(last.topic)) => Len(audio_buffer) < chunk_size

\* C2 amended: audio_buffer is shorter than chunk_size whenever the pass of
\* an audio frame has run to completion (no detector call raised in it), and
\* in every state until a detector call raises for the first time.
C2_Amended ==
    /\ (Handled /\ last.reached /\ last.failure = "none") =>
          Len(audio_buffer) < chunk_size
    /\ ~detector_raised => Len(audio_buffer) < chunk_size

\* C2 witness: a pass that ran to completion although an earlier, aborted
\* pass had left chunk_size or more bytes behind.
C2_Witness ==
    /\ Handled /\ last.reached /\ last.failure = "none"
    /\ Len(last.buffer_before) >= chunk_size
    /\ Len(last.chunks) >= 1
    /\ Len(audio_buffer) < chunk_size

\* C3: on every chunk the detectors are called in configured order from
\* the first; the call that reports a match is the last call on the chunk
\* and produces the chunk's only event, which is for that detector; a chunk
\* has no event without such a call; and every chunk of the pass, also one
\* after a chunk with a match, is evaluated from detector 0 again.
C3_FirstMatchWins ==
    Handled =>
       \A j \in 1..Len(last.chunks) :
          LET cs == CallsOn(j)
              es == EventsOn(j)
          IN  /\ Len(cs) >= 1 /\ cs[1].detector_index = 0
              /\ \A k \in 1..Len(cs) : cs[k].detector_index = k - 1
              /\ \A k \in 1..Len(cs) :
                    IsHit(cs[k]) =>
                       /\ k = Len(cs)
                       /\ Len(es) = 1 /\ es[1].detector_index = k - 1
              /\ Len(es) <= 1
              /\ Len(es) = 1 => IsHit(cs[Len(cs)])

\* C3 witness: detectors [A, B, C], two chunks in one pass; on the first A
\* is quiet and B matches, so C is not called and the one event is B's; the
\* second chunk is evaluated from A again.
C3_Witness ==
    /\ Handled /\ Len(detectors) = 3 /\ Len(last.chunks) = 2
    /\ Len(CallsOn(1)) = 2
    /\ ~IsHit(CallsOn(1)[1]) /\ CallsOn(1)[1].returned
    /\ IsHit(CallsOn(1)[2])
    /\ Len(EventsOn(1)) = 1 /\ EventsOn(1)[1].detector_index = 1
    /\ Len(CallsOn(2)) >= 1 /\ CallsOn(2)[1].detector_index = 0

\* C4 as stated: every detector is polled exactly once per chunk, in the
\* configured order, whether or not an earlier detector fired (chunks whose
\* evaluation a raising call cut short are left aside).
C4_Original ==
    Handled =>
       \A j \in 1..Len(last.chunks) :
          LET cs == CallsOn(j)
          IN  (\A k \in 1..Len(cs) : cs[k].returned) =>
                 /\ Len(cs) = Len(detectors)
                 /\ \A k \in 1..Len(cs) : cs[k].detector_index = k - 1

\* C4 amended: on every chunk the detectors are polled at most once each,
\* in the configured order from the first; when no call on the chunk fires
\* or raises every detector is polled exactly once; once a detector fires
\* no later detector is polled on that chunk.
C4_Amended ==
    Handled =>
       \A j \in 1..Len(last.chunks) :
          LET cs == CallsOn(j)
          IN  /\ Len(cs) <= Len(detectors)
              /\ \A k \in 1..Len(cs) : cs[k].detector_index = k - 1
              /\ (\A k \in 1..Len(cs) : cs[k].returned /\ ~IsHit(cs[k])) =>
                    Len(cs) = Len(detectors)
              /\ \A k \in 1..Len(cs) : IsHit(cs[k]) => Len(cs) = k

\* C4 witness: with several detectors, the first fires on a chunk and the
\* others are not polled on it.
C4_Witness ==
    /\ Handled /\ Len(detectors) >= 2 /\ Len(last.chunks) >= 1
    /\ Len(CallsOn(1)) = 1 /\ IsHit(CallsOn(1)[1])


\* The bytes of the buffer and of the chunks taken in the last pass.
BytesInPlay ==
    {audio_buffer[k] : k \in 1..Len(audio_buffer)}
    \cup {last.chunks[j][k] : j \in 1..Len(last.chunks), k \in 1..chunk_size}

\* The first chunk taken after a disabled window, if the last pass took it.
FirstChunkAfterWindow ==
    Handled /\ last.window_before.phase = "on_again" /\ last.chunks # <<>>

\* C5 as stated: no byte of a frame delivered while disabled is in the
\* buffer or in a chunk; while disabled the buffer is what the toggle-off
\* found; and that remainder is a prefix of the first chunk taken after the
\* service is enabled again.
C5_Original ==
    /\ \A b \in BytesInPlay : b[4]
    /\ window.phase = "off" => audio_buffer = window.remainder
    /\ FirstChunkAfterWindow => IsPrefix(last.window_before.remainder, last.chunks[1])

\* C5 amended: as stated, except that the first chunk taken after the
\* window starts with the remainder's bytes as far as a chunk reaches: the
\* remainder is its prefix when shorter than chunk_size, and the chunk is
\* the remainder's first chunk_size bytes otherwise.
C5_Amended ==
    /\ \A b \in BytesInPlay : b[4]
    /\ window.phase = "off" => audio_buffer = window.remainder
    /\ (Handled /\ ~last.enabled_before /\ IsAudioFrameTopic(last.topic)) =>
          ~last.reached /\ audio_buffer = last.buffer_before
    /\ FirstChunkAfterWindow =>
          LET rem == last.window_before.remainder
              n == Min(Len(rem), chunk_size)
          IN  SubSeq(last.chunks[1], 1, n) = SubSeq(rem, 1, n)

\* C5 witness: a remainder was buffered when the service was disabled, a
\* frame of a subscribed site was dropped inside the window, and the first
\* chunk after the window has just been taken, starting with the remainder.
C5_Witness ==
    /\ FirstChunkAfterWindow
    /\ last.window_before.dropped
    /\ last.window_before.remainder # <<>>
    /\ IsPrefix(last.window_before.remainder, last.chunks[1])
    /\ Len(last.pcm) >= 1

\* The handled message is an audio frame of site s that arrived while a
\* toggle-off naming only "kitchen" was in effect, scope {kitchen, office}.
KitchenOffFrame(s) ==
    /\ Handled /\ siteIds = <<"kitchen", "office">>
    /\ last.topic = AudioFrameTopic(s)
    /\ last.window_before.phase = "off" /\ last.window_before.sites = {"kitchen"}

\* C6 as stated: with scope {kitchen, office}, after a toggle-off naming
\* kitchen the frames of kitchen are dropped while the frames of office are
\* still appended to the buffer and run through the detectors.
C6_Original ==
    /\ KitchenOffFrame("kitchen") => ~last.reached
    /\ KitchenOffFrame("office") =>
          /\ last.reached
          /\ MaybeConvertWav(last.wav).raised
                \/ Flatten(last.chunks) \o audio_buffer = last.buffer_before \o last.pcm

\* C6 amended: the enabled state is one flag for all sites; after a
\* toggle-off whose siteId is in the scope, the frames of every site are
\* dropped (nothing appended, no detector called, nothing published) until
\* a toggle-on whose siteId is in the scope arrives.
C6_Amended ==
    /\ enabled <=> window.phase # "off"
    /\ (Handled /\ IsAudioFrameTopic(last.topic) /\ last.window_before.phase = "off") =>
          /\ ~last.reached /\ audio_buffer = last.buffer_before
          /\ last.calls = <<>> /\ last.events = <<>> /\ last.published = <<>>

\* C6 witness: a well-formed frame of office, large enough for a chunk,
\* dropped while only kitchen had been toggled off.
C6_Witness ==
    /\ KitchenOffFrame("office")
    /\ last.wav.parsable /\ last.wav.format_ok
    /\ Len(last.buffer_before) + Len(last.wav.frames) >= chunk_size
    /\ ~last.reached /\ audio_buffer = last.buffer_before

IsToggle(topic) == topic \in {ToggleOnTopic, ToggleOffTopic}

\* The siteId the handled toggle names ("default" when it has no such
\* field or no payload), and whether the scope admits it.
NamedSite ==
    IF "siteId" \in DOMAIN last.toggle.obj THEN last.toggle.obj["siteId"] ELSE "default"
NamedSiteInScope == siteIds = <<>> \/ \E i \in 1..Len(siteIds) : siteIds[i] = NamedSite

\* C7: a toggle changes enabled only if the scope is empty or contains the
\* siteId it names; a toggle naming a site outside a non-empty scope leaves
\* enabled, first_audio and audio_buffer as they were.
C7_ToggleScope ==
    (Handled /\ IsToggle(last.topic)) =>
       /\ enabled # last.enabled_before => NamedSiteInScope
       /\ ~NamedSiteInScope =>
             /\ enabled = last.enabled_before
             /\ first_audio = last.first_audio_before
             /\ audio_buffer = last.buffer_before

\* C7 witness: enabled service, first_audio cleared, scope {kitchen,
\* office}; a well-formed toggle-off naming "default" changed nothing.
C7_Witness ==
    /\ Handled /\ last.topic = ToggleOffTopic
    /\ siteIds = <<"kitchen", "office">>
    /\ last.toggle.json = "object" /\ NamedSite = "default"
    /\ "siteId" \in DOMAIN last.toggle.obj
    /\ last.enabled_before /\ enabled /\ ~first_audio
    /\ audio_buffer # <<>>

OutOfScope(site) == siteIds # <<>> /\ \A i \in 1..Len(siteIds) : siteIds[i] # site

\* C8: with an empty scope an audio frame of any site is processed when the
\* service is enabled; with a non-empty scope a frame of a site outside it
\* is not appended, reaches no detector and produces no event, and no byte
\* of such a frame is ever in the buffer or in a chunk.
C8_AudioScope ==
    /\ \A b \in BytesInPlay : ~OutOfScope(b[3])
    /\ (Handled /\ IsAudioFrameTopic(last.topic)) =>
          /\ (siteIds = <<>> /\ last.enabled_before) => last.reached
          /\ OutOfScope(GetSiteId(last.topic)) =>
                /\ ~last.reached /\ audio_buffer = last.buffer_before
                /\ last.calls = <<>> /\ last.events = <<>> /\ last.published = <<>>

\* C8 witness: enabled service with scope {kitchen, office}; a well-formed
\* frame of site "default", large enough for a chunk, was not processed.
C8_Witness ==
    /\ Handled /\ siteIds = <<"kitchen", "office">>
    /\ last.topic = AudioFrameTopic("default")
    /\ last.enabled_before
    /\ last.wav.parsable /\ last.wav.format_ok
    /\ Len(last.buffer_before) + Len(last.wav.frames) >= chunk_size
    /\ ~last.reached /\ audio_buffer = last.buffer_before

\* C9: no failure leaves on_message: after every message the client loop
\* is still running, whatever failed while the message was handled, and it
\* goes on to deliver the next message.
C9_NoEscape ==
    /\ dispatcher \in {"waiting", "returned"}
    /\ Handled => last.failure \in {"none", "json", "check_siteId", "wav", "detector"}

\* C9 witness: a detector call raised while an earlier frame was handled,
\* and a later frame has been handled to the end, its publish failing too.
C9_Witness ==
    /\ Handled /\ detector_raised
    /\ last.reached /\ last.failure = "none"
    /\ last.chunks # <<>> /\ last.publish_errors >= 1

\* C10 as stated: every match by detector i yields a HotwordDetected whose
\* modelId is the stem of model i's path, whose currentSensitivity is model
\* i's sensitivity and whose siteId is the frame's site, with modelVersion
\* "" and modelType "personal".
C10_DetectedFields ==
    Handled =>
       \A k \in 1..Len(last.events) :
          LET e == last.events[k]
              model == models[e.detector_index + 1]
          IN  /\ e.message.type = "HotwordDetected"
              /\ e.message.modelId = model.model_path.stem
              /\ e.message.currentSensitivity = model.sensitivity
              /\ e.message.siteId = GetSiteId(last.topic)
              /\ e.message.modelVersion = ""
              /\ e.message.modelType = "personal"

\* The event is a HotwordError.
IsError(e) == e.message.type = "HotwordError"

\* C11: a match by detector i whose metadata cannot be resolved (no model
\* id at index i) yields a HotwordError with the failure's description,
\* context the string form of i and the frame's siteId; on_message does not
\* fail for it, and the pass goes on: the chunks after that chunk are taken
\* and evaluated from detector 0, and no full chunk is left behind unless a
\* later detector call raises.
C11_ErrorEvent ==
    Handled =>
       \A k \in 1..Len(last.events) :
          LET e == last.events[k]
              i == e.detector_index
          IN  /\ IsError(e) <=> Len(model_ids) <= i
              /\ IsError(e) =>
                    /\ e.message = HotwordError(<<"Missing", i, "in models">>,
                                                ToString(i), last.topic[3])
                    /\ \A n \in 1..Len(CallsOn(e.chunk)) : CallsOn(e.chunk)[n].returned
                    /\ e.chunk < Len(last.chunks) =>
                          /\ CallsOn(e.chunk + 1) # <<>>
                          /\ CallsOn(e.chunk + 1)[1].detector_index = 0
                    /\ (e.chunk = Len(last.chunks)) =>
                          /\ last.failure = "none"
                          /\ Len(audio_buffer) < chunk_size

\* C11 witness: three models, model_ids of length 1; detector 1 matches on
\* the first of two chunks, an error with context "1" is produced, and the
\* second chunk is evaluated.
C11_Witness ==
    /\ Handled /\ Len(detectors) = 3 /\ Len(last.chunks) = 2
    /\ Len(EventsOn(1)) = 1 /\ IsError(EventsOn(1)[1])
    /\ EventsOn(1)[1].detector_index = 1
    /\ EventsOn(1)[1].message.context = "1"
    /\ CallsOn(2) # <<>>

\* The command line the object was built from.
ArgsOf(ms) == CHOOSE args \in Args : ParseModels(args.model) = ms

\* The --wakewordId supplied for model position i (1-based), "default"
\* when fewer ids than models were supplied.
SuppliedWakewordId(args, i) ==
    IF i <= Len(args.wakewordId) THEN args.wakewordId[i] ELSE "default"

\* C12: a match by detector i is labelled wakeword_ids[i] when i is below
\* the list's length and "default" otherwise; in every state the list
\* gives model position i the i-th --wakewordId of the command line, or
\* "default" when fewer ids than models were supplied.
C12_Positional ==
    /\ Len(wakeword_ids) >= Len(models)
    /\ \A i \in 1..Len(models) :
          wakeword_ids[i] = SuppliedWakewordId(ArgsOf(models), i)
    /\ Handled =>
          \A k \in 1..Len(last.events) :
             LET e == last.events[k]
             IN  e.wakewordId =
                    IF e.detector_index < Len(wakeword_ids)
                    THEN wakeword_ids[e.detector_index + 1] ELSE "default"

\* C12 witness: models [a, b, c] with ids [x, y]; after a toggle-off and a
\* toggle-on, the second detector's match is labelled "y".
C12_Witness ==
    /\ Handled /\ Len(models) = 3
    /\ wakeword_ids = <<"x", "y", "default">>
    /\ last.window_before.phase = "on_again"
    /\ \E k \in 1..Len(last.events) :
          last.events[k].detector_index = 1 /\ last.events[k].wakewordId = "y"

\* The object was built from --model hey.umdl and no --wakewordId.
OnlyHey == Len(models) = 1 /\ models[1].model_path.stem = <<"h", "e", "y">>

\* An event of detector 1 where the command line supplied one id only.
UnlabelledSecond(e) == e.detector_index = 1 /\ Len(ArgsOf(models).wakewordId) = 1

\* C13 as stated: with the one model "hey" and no wakeword id, a match by
\* detector 0 is labelled "hey"; a detector at index 1 without a wakeword
\* id of its own is labelled "default".
C13_Original ==
    Handled =>
       \A k \in 1..Len(last.events) :
          LET e == last.events[k]
          IN  /\ (OnlyHey /\ e.detector_index = 0) => e.wakewordId = "hey"
              /\ UnlabelledSecond(e) => e.wakewordId = "default"

\* C13 amended: with the one model "hey" and no wakeword id, a match by
\* detector 0 is labelled "default" (the label never comes from the model)
\* and published on the detection topic of "default"; a detector at index 1
\* without a wakeword id of its own is labelled "default" as well.
C13_Amended ==
    /\ OnlyHey => wakeword_ids = <<"default">>
    /\ Handled =>
          \A k \in 1..Len(last.events) :
             LET e == last.events[k]
             IN  /\ (OnlyHey /\ e.detector_index = 0) => e.wakewordId = "default"
                 /\ UnlabelledSecond(e) => e.wakewordId = "default"
    /\ (Handled /\ OnlyHey) =>
          \A k \in 1..Len(last.published) :
             last.published[k].topic = DetectedTopic("default")

\* C13 witness: model "hey", no wakeword id, detector 0 matched and its
\* detection went out on the topic of "default".
C13_Witness ==
    /\ Handled /\ OnlyHey
    /\ Len(last.events) >= 1 /\ last.events[1].detector_index = 0
    /\ last.events[1].wakewordId = "default"
    /\ Len(last.published) >= 1
    /\ last.published[1].topic = DetectedTopic("default")

RECURSIVE IsSubSeq(_, _)
\* p is q with some elements left out.
IsSubSeq(p, q) ==
    IF p = <<>> THEN TRUE
    ELSE IF q = <<>> THEN FALSE
    ELSE IF Head(p) = Head(q) THEN IsSubSeq(Tail(p), Tail(q))
    ELSE IsSubSeq(p, Tail(q))

\* What the claim has published for an event: a detection on the topic of
\* its wakewordId, an error on the error topic.
Publication(e) ==
    [topic |-> IF IsError(e) THEN ErrorTopic ELSE DetectedTopic(e.wakewordId),
     payload |-> e.message]

Publications == [k \in 1..Len(last.events) |-> Publication(last.events[k])]

\* The events of the last pass come in the order of their chunks.
InChunkOrder ==
    \A k \in 1..(Len(last.events) - 1) : last.events[k].chunk < last.events[k + 1].chunk

\* C14 as stated: what has been published after an audio frame is, event
\* for event and in chunk order, each produced event once, a detection on
\* the topic of its wakewordId and an error on the error topic.
C14_Original ==
    Handled => (InChunkOrder /\ last.published = Publications)

\* C14 amended: every produced event is handed to publish once, in chunk
\* order, a detection for the topic of its wakewordId and an error for the
\* error topic; an event whose client.publish call raises is logged and
\* dropped without a second attempt, and the other events are still
\* published, in order.
C14_Amended ==
    Handled =>
       /\ InChunkOrder
       /\ Len(last.published) + last.publish_errors = Len(last.events)
       /\ IsSubSeq(last.published, Publications)
       /\ last.publish_errors = 0 => last.published = Publications

\* C14 witness: a pass with a detection and an error, both published, the
\* detection with its wakewordId and the error on the error topic.
C14_Witness ==
    /\ Handled /\ Len(last.events) = 2 /\ last.publish_errors = 0
    /\ ~IsError(last.events[1]) /\ IsError(last.events[2])
    /\ last.published[1].topic = DetectedTopic(last.events[1].wakewordId)
    /\ last.published[2].topic = ErrorTopic

\* C16: a call that returns a result that is no match produces no event
\* and is followed by a call of the next detector on the same chunk, if
\* there is one; a chunk on which no call matches has no event; and the
\* calls on a chunk stop short of the last detector only after a match (a
\* call that raises returns no result and ends the whole pass).
C16_NoMatchGoesOn ==
    Handled =>
       \A j \in 1..Len(last.chunks) :
          LET cs == CallsOn(j)
              es == EventsOn(j)
          IN  /\ \A k \in 1..Len(cs) :
                    (cs[k].returned /\ cs[k].result_index <= 0) =>
                       /\ \A n \in 1..Len(es) : es[n].detector_index # cs[k].detector_index
                       /\ k < Len(detectors) =>
                             (Len(cs) > k /\ cs[k + 1].detector_index = cs[k].detector_index + 1)
              /\ (\A k \in 1..Len(cs) : ~IsHit(cs[k])) => es = <<>>
              /\ Len(cs) < Len(detectors) =>
                    (IsHit(cs[Len(cs)]) \/ ~cs[Len(cs)].returned)

\* C16 witness: three detectors answer error, voice and silence on a
\* chunk: all three are called and the chunk has no event.
C16_Witness ==
    /\ Handled /\ Len(detectors) = 3 /\ Len(last.chunks) >= 1
    /\ Len(CallsOn(1)) = 3
    /\ CallsOn(1)[1].returned /\ CallsOn(1)[1].result_index = -1
    /\ CallsOn(1)[2].returned /\ CallsOn(1)[2].result_index = 0
    /\ CallsOn(1)[3].returned /\ CallsOn(1)[3].result_index = -2
    /\ EventsOn(1) = <<>>

\* The payload of the handled audio frame cannot be normalised.
BadWav == ~last.wav.parsable \/ (~last.wav.format_ok /\ ~last.wav.sox_ok)

\* C17: an audio frame whose payload cannot be normalised is dropped: no
\* byte is appended, no chunk taken, no detector called, nothing published,
\* audio_buffer and enabled are as before the message; and a frame that is
\* normalised is chunked from audio_buffer as it finds it, the buffer's
\* bytes first and then its own.
C17_BadFrameDropped ==
    /\ (Handled /\ last.reached /\ BadWav) =>
          /\ last.failure = "wav"
          /\ audio_buffer = last.buffer_before
          /\ enabled = last.enabled_before
          /\ last.pcm = <<>> /\ last.chunks = <<>> /\ last.calls = <<>>
          /\ last.events = <<>> /\ last.published = <<>>
    /\ (Handled /\ last.reached /\ ~BadWav) =>
          /\ last.failure # "wav"
          /\ last.pcm = IF last.wav.format_ok THEN last.wav.frames ELSE last.wav.sox_stdout
          /\ Flatten(last.chunks) \o audio_buffer = last.buffer_before \o last.pcm

\* C17 witness: a frame of another format that the converter fails on,
\* delivered to an enabled service with bytes buffered; nothing changed.
C17_Witness ==
    /\ Handled /\ last.reached /\ last.failure = "wav"
    /\ last.wav.parsable /\ ~last.wav.format_ok /\ ~last.wav.sox_ok
    /\ last.wav.frames # <<>>
    /\ last.buffer_before # <<>> /\ audio_buffer = last.buffer_before
    /\ enabled

\* The sites of the bytes of chunk j of the last pass.
SitesOfChunk(j) == {last.chunks[j][k][3] : k \in 1..Len(last.chunks[j])}

\* C19: every event carries the siteId of the audio frame that was being
\* handled when its chunk was taken, whichever sites the bytes of the
\* chunk came from.
C19_EventSite ==
    Handled =>
       \A k \in 1..Len(last.events) :
          /\ last.events[k].message.siteId = last.topic[3]
          /\ last.events[k].chunk \in 1..Len(last.chunks)

\* C19 witness: a chunk whose first byte was left by a frame of another
\* site produced an event, which names the site of the frame handled.
C19_Witness ==
    /\ Handled /\ Len(last.events) >= 1
    /\ last.events[1].chunk = 1
    /\ last.buffer_before # <<>>
    /\ last.chunks[1][1][3] # last.topic[3]
    /\ last.topic[3] \in SitesOfChunk(1)
    /\ last.events[1].message.siteId = last.topic[3]

\* The last call of the last pass raised.
PassAborted == Handled /\ last.calls # <<>> /\ ~last.calls[Len(last.calls)].returned

\* C20: a detector call that raises is the last call of the pass and
\* on_message returns; its chunk is out of audio_buffer, no detector after
\* the failing one is called on it, and the bytes after it stay buffered in
\* order; in every state the buffer holds the last bytes appended, in
\* order, so no chunk's bytes come back; and every pass takes its chunks
\* from the front of the buffer it finds, before the frame's own bytes.
C20_RaisingDetector ==
    /\ \A k \in 1..Len(audio_buffer) :
          audio_buffer[k][1] = total_len - Len(audio_buffer) + k
    /\ Handled =>
          /\ \A k \in 1..Len(last.calls) : ~last.calls[k].returned => k = Len(last.calls)
          /\ last.failure = "detector" <=> PassAborted
          /\ \A j \in 1..Len(last.chunks) : \A k \in 1..chunk_size :
                last.chunks[j][k][1] =
                   (chunks_presented - Len(last.chunks) + j - 1) * chunk_size + k
    /\ PassAborted =>
          /\ dispatcher = "returned"
          /\ last.calls[Len(last.calls)].chunk = Len(last.chunks)
          /\ Flatten(last.chunks) \o audio_buffer = last.buffer_before \o last.pcm
    /\ (Handled /\ last.reached /\ last.failure # "wav"
             /\ Len(last.buffer_before) >= chunk_size) =>
          last.chunks[1] = SubSeq(last.buffer_before, 1, chunk_size)

\* C20 witness: with several detectors the first raises on a chunk while a
\* full chunk more is buffered: the others are not called, the chunk is
\* gone and chunk_size bytes or more stay in audio_buffer.
C20_Witness ==
    /\ PassAborted /\ Len(detectors) >= 2
    /\ last.calls[Len(last.calls)].detector_index = 0
    /\ Len(audio_buffer) >= chunk_size
    /\ audio_buffer[1][1] = chunks_presented * chunk_size + 1

\* main's batch run is over and its record is at hand.
BatchOver == dispatcher \in {"exited", "crashed"} /\ last.op = "stdin_audio"

\* C15: in batch mode, when the blob is normalised and no detector call
\* raises, every chunk of the blob is taken and evaluated, every chunk
\* with a match has its event, the events are written to the output in
\* chunk order, nothing is published, and main returns normally.
C15_BatchMode ==
    (BatchOver /\ ~BadWav /\ \A k \in 1..Len(last.calls) : last.calls[k].returned) =>
       /\ dispatcher = "exited"
       /\ Len(last.chunks) = Len(last.pcm) \div chunk_size
       /\ \A j \in 1..Len(last.chunks) :
             /\ CallsOn(j) # <<>>
             /\ IsHit(CallsOn(j)[Len(CallsOn(j))]) => Len(EventsOn(j)) = 1
       /\ InChunkOrder
       /\ stdout = [k \in 1..Len(last.events) |-> last.events[k].message]
       /\ last.published = <<>>

\* No handler is running.
Quiet == \A t \in ThreadIds : ~Running(t)

\* The bytes that have arrived, in arrival order.
Arrived == Bytes(0, "raw", "default", TRUE, total_len)

\* The FIFO chunking invariant: the chunks presented so far are the
\* successive chunk_size-byte pieces of the arrived bytes, and once no
\* handler is running the chunks followed by the buffer are exactly the
\* arrived bytes and less than a chunk is buffered.
Fifo ==
    /\ \A j \in 1..Len(presented) :
          presented[j] = Bytes((j - 1) * chunk_size, "raw", "default", TRUE, chunk_size)
    /\ Quiet =>
          /\ Flatten(presented) \o audio_buffer = Arrived
          /\ Len(audio_buffer) < chunk_size

\* C18: as long as the handlers of audio frames run one after the other,
\* each to its end, the FIFO chunking invariant holds; handlers that are
\* interleaved between the buffer statements can reach a state where it
\* does not (the witness).
C18_Serialized == ~interleaved => Fifo

\* C18 witness: two handlers were interleaved, both have finished, and a
\* chunk was presented twice while the bytes after it were lost.
C18_Witness ==
    /\ interleaved /\ Quiet /\ ~Fifo
    /\ \E i, j \in 1..Len(presented) : i < j /\ presented[i] = presented[j]
    /\ Len(Flatten(presented)) + Len(audio_buffer) # total_len

====
